---- MODULE Spec2Model ----
(***************************************************************************)
(* Shape calculator (src/file.cpp): the Shape hierarchy with its lazily    *)
(* filled area / perimeter caches, calculateShapeStats, processShape and   *)
(* main.                                                                   *)
(*                                                                         *)
(* A C++ double is modelled as a record [cls, v]: cls is "fin", "nan",     *)
(* "pinf" or "ninf" and, for a finite value, v counts units of 1/Scale.    *)
(* Addition and subtraction are exact on that grid; multiplication,        *)
(* division and sqrt round to the nearest grid value (ties to even), as    *)
(* the IEEE operations round to the nearest double.  Comparisons with a    *)
(* NaN operand are false.                                                  *)
(*                                                                         *)
(* Shape objects live in the sequence objs; the vector<unique_ptr<Shape>>  *)
(* is the sequence shapes of handles (indices) into objs.  log is a        *)
(* call-counting instrumentation: for each object the values returned by   *)
(* getArea() / getPerimeter() so far and the number of times each formula  *)
(* ran.  Text written to cout is not modelled, except the average that     *)
(* main computes for its summary.                                          *)
(***************************************************************************)
EXTENDS Integers, Sequences, FiniteSets, TLC

\* ---------------------------------------------------------------- bounds
MaxShapes == 2
MaxOps == 3
MaxDim == 5
MaxSide == 5

\* ---------------------------------------------------------------- double
Scale == 256

Fin(u) == [cls |-> "fin", v |-> u]
NaN == [cls |-> "nan", v |-> 0]
PInf == [cls |-> "pinf", v |-> 0]
NInf == [cls |-> "ninf", v |-> 0]

\* a literal given in halves: Half(5) is 2.5
Half(h) == Fin(h * (Scale \div 2))
Whole(n) == Fin(n * Scale)

IsNaN(x) == x.cls = "nan"
IsFin(x) == x.cls = "fin"

Sign(x) == IF x.cls = "pinf" THEN 1
           ELSE IF x.cls = "ninf" THEN -1
           ELSE IF x.v > 0 THEN 1 ELSE IF x.v < 0 THEN -1 ELSE 0

InfOf(s) == IF s > 0 THEN PInf ELSE NInf

\* n / d rounded to the nearest integer, ties to even (d > 0)
RoundDivPos(n, d) ==
    LET q == n \div d
        r == n % d
    IN  IF 2 * r > d THEN q + 1
        ELSE IF 2 * r = d THEN q + (q % 2)
        ELSE q

RoundDiv(n, d) == IF d > 0 THEN RoundDivPos(n, d) ELSE RoundDivPos(-n, -d)

RECURSIVE FloorSqrt(_, _, _)
\* the largest r in lo..hi with r * r <= n (lo * lo <= n < (hi + 1) * (hi + 1))
FloorSqrt(n, lo, hi) ==
    IF lo = hi THEN lo
    ELSE LET mid == (lo + hi + 1) \div 2
         IN  IF mid * mid <= n THEN FloorSqrt(n, mid, hi)
             ELSE FloorSqrt(n, lo, mid - 1)

\* sqrt(n) rounded to the nearest integer (n >= 0)
RoundSqrt(n) ==
    LET f == FloorSqrt(n, 0, 46340)
    IN  IF n > f * f + f THEN f + 1 ELSE f

DNeg(x) == IF x.cls = "fin" THEN Fin(-x.v)
           ELSE IF x.cls = "pinf" THEN NInf
           ELSE IF x.cls = "ninf" THEN PInf
           ELSE NaN

DAdd(x, y) ==
    IF IsNaN(x) \/ IsNaN(y) THEN NaN
    ELSE IF IsFin(x) /\ IsFin(y) THEN Fin(x.v + y.v)
    ELSE IF IsFin(x) THEN y
    ELSE IF IsFin(y) THEN x
    ELSE IF x.cls = y.cls THEN x ELSE NaN

DSub(x, y) == DAdd(x, DNeg(y))

DMul(x, y) ==
    IF IsNaN(x) \/ IsNaN(y) THEN NaN
    ELSE IF IsFin(x) /\ IsFin(y) THEN Fin(RoundDiv(x.v * y.v, Scale))
    ELSE IF Sign(x) = 0 \/ Sign(y) = 0 THEN NaN
    ELSE InfOf(Sign(x) * Sign(y))

DDiv(x, y) ==
    IF IsNaN(x) \/ IsNaN(y) THEN NaN
    ELSE IF IsFin(x) /\ IsFin(y) THEN
        IF y.v = 0 THEN (IF x.v = 0 THEN NaN ELSE InfOf(x.v))
        ELSE Fin(RoundDiv(x.v * Scale, y.v))
    ELSE IF IsFin(y) THEN (IF y.v < 0 THEN DNeg(x) ELSE x)
    ELSE IF IsFin(x) THEN Fin(0)
    ELSE NaN

DSqrt(x) ==
    IF IsNaN(x) \/ x.cls = "ninf" THEN NaN
    ELSE IF x.cls = "pinf" THEN PInf
    ELSE IF x.v < 0 THEN NaN
    ELSE Fin(RoundSqrt(x.v * Scale))

DLess(x, y) ==
    IF IsNaN(x) \/ IsNaN(y) THEN FALSE
    ELSE IF IsFin(x) /\ IsFin(y) THEN x.v < y.v
    ELSE IF x.cls = y.cls THEN FALSE
    ELSE x.cls = "ninf" \/ y.cls = "pinf"

\* ------------------------------------------------------------- Constants
\* Constants::PI rounded to the grid: round(3.14159265358979323846 * Scale)
PI == Fin(RoundDiv(31416 * Scale, 10000))

\* ----------------------------------------------------------------- Shape
\* the initial value of cached_area and cached_perimeter
Unset == DNeg(Whole(1))

\* Shape::Shape: the base sub-object
Shape(shapeName) ==
    [name |-> shapeName, cached_area |-> Unset, cached_perimeter |-> Unset]

Rectangle(w, h) ==
    [kind |-> "Rectangle", base |-> Shape("Rectangle"),
     width |-> w, height |-> h]

Circle(r) ==
    [kind |-> "Circle", base |-> Shape("Circle"),
     radius |-> r, radius_squared |-> DMul(r, r)]

Triangle(s1, s2, s3) ==
    [kind |-> "Triangle", base |-> Shape("Triangle"),
     side1 |-> s1, side2 |-> s2, side3 |-> s3,
     semi_perimeter |-> DMul(DAdd(DAdd(s1, s2), s3), Half(1))]

getName(o) == o.base.name

\* mutant: "+" typed for "*"
RectangleAreaAdds(o) == DAdd(o.width, o.height)

RectangleCalculateArea(o) == DMul(o.width, o.height)

RectangleCalculatePerimeter(o) == DMul(Whole(2), DAdd(o.width, o.height))

CircleCalculateArea(o) == DMul(PI, o.radius_squared)

CircleCalculatePerimeter(o) == DMul(DMul(Whole(2), PI), o.radius)

DAbs(x) == IF DLess(x, Fin(0)) THEN DNeg(x) ELSE x

\* the local "term" of Triangle::calculateArea
HeronTerm(o) ==
    LET s == o.semi_perimeter
    IN  DMul(DMul(DMul(s, DSub(s, o.side1)), DSub(s, o.side2)),
             DSub(s, o.side3))

\* mutant: the radicand forced non-negative before sqrt
TriangleAreaOfAbs(o) ==
    LET s == o.semi_perimeter
    IN  DSqrt(DAbs(DMul(DMul(DMul(s, DSub(s, o.side1)), DSub(s, o.side2)),
                        DSub(s, o.side3))))

TriangleCalculateArea(o) == DSqrt(HeronTerm(o))

\* mutant: the factor 2.0 dropped
TrianglePerimeterHalved(o) == o.semi_perimeter

TriangleCalculatePerimeter(o) == DMul(Whole(2), o.semi_perimeter)

\* virtual dispatch on the dynamic type
calculateArea(o) ==
    IF o.kind = "Rectangle" THEN RectangleCalculateArea(o)
    ELSE IF o.kind = "Circle" THEN CircleCalculateArea(o)
    ELSE TriangleCalculateArea(o)

calculatePerimeter(o) ==
    IF o.kind = "Rectangle" THEN RectangleCalculatePerimeter(o)
    ELSE IF o.kind = "Circle" THEN CircleCalculatePerimeter(o)
    ELSE TriangleCalculatePerimeter(o)

\* mutant: the computed area is returned but never stored
getAreaNoStore(o) ==
    IF DLess(o.base.cached_area, Fin(0))
    THEN [o |-> o, ret |-> calculateArea(o), calc |-> 1]
    ELSE [o |-> o, ret |-> o.base.cached_area, calc |-> 0]

\* mutant: a miss fills both caches at once
getAreaFillsBoth(o) ==
    IF DLess(o.base.cached_area, Fin(0))
    THEN LET a == calculateArea(o)
         IN  [o |-> [o EXCEPT !.base.cached_area = a,
                              !.base.cached_perimeter = calculatePerimeter(o)],
              ret |-> a, calc |-> 1]
    ELSE [o |-> o, ret |-> o.base.cached_area, calc |-> 0]

\* Shape::getArea: the object after the call, the value returned and the
\* number of calculateArea() invocations the call made
getArea(o) ==
    IF DLess(o.base.cached_area, Fin(0))
    THEN LET a == calculateArea(o)
         IN  [o |-> [o EXCEPT !.base.cached_area = a], ret |-> a, calc |-> 1]
    ELSE [o |-> o, ret |-> o.base.cached_area, calc |-> 0]

\* mutant: the perimeter is stored in cached_area as well
getPerimeterIntoArea(o) ==
    IF DLess(o.base.cached_perimeter, Fin(0))
    THEN LET p == calculatePerimeter(o)
         IN  [o |-> [o EXCEPT !.base.cached_perimeter = p, !.base.cached_area = p],
              ret |-> p, calc |-> 1]
    ELSE [o |-> o, ret |-> o.base.cached_perimeter, calc |-> 0]

\* Shape::getPerimeter, likewise
getPerimeter(o) ==
    IF DLess(o.base.cached_perimeter, Fin(0))
    THEN LET p == calculatePerimeter(o)
         IN  [o |-> [o EXCEPT !.base.cached_perimeter = p], ret |-> p, calc |-> 1]
    ELSE [o |-> o, ret |-> o.base.cached_perimeter, calc |-> 0]

\* ------------------------------------------------------------------ state
VARIABLES
    objs,      \* the Shape objects constructed so far
    shapes,    \* the vector: handles (indices into objs), in order
    log,       \* per object: values returned and formula runs so far
    stats,     \* the ShapeStats values calculateShapeStats has returned
    average,   \* << >> or <<a>>: stats.total_area / stats.count once computed
    pc,        \* "lib": any caller of the classes; otherwise main's position
    ops        \* number of calls made by the "lib" caller

vars == <<objs, shapes, log, stats, average, pc, ops>>

EmptyLog == [areaRets |-> << >>, perimRets |-> << >>, areaCalc |-> 0, perimCalc |-> 0]

\* the heap part of the state, threaded through nested calls
Heap == [objs |-> objs, log |-> log]

\* a call shape.getArea() on object id: the heap after it and the value returned
CallGetArea(H, id) ==
    LET r == getArea(H.objs[id])
    IN  [H |-> [objs |-> [H.objs EXCEPT ![id] = r.o],
                log |-> [H.log EXCEPT ![id].areaRets = Append(@, r.ret),
                                      ![id].areaCalc = @ + r.calc]],
         ret |-> r.ret]

CallGetPerimeter(H, id) ==
    LET r == getPerimeter(H.objs[id])
    IN  [H |-> [objs |-> [H.objs EXCEPT ![id] = r.o],
                log |-> [H.log EXCEPT ![id].perimRets = Append(@, r.ret),
                                      ![id].perimCalc = @ + r.calc]],
         ret |-> r.ret]

\* displayInfo of every derived class: streams getArea() then getPerimeter()
displayInfo(H, id) == CallGetPerimeter(CallGetArea(H, id).H, id).H

\* processShape: prints getName(), then displayInfo()
processShape(H, id) == displayInfo(H, id)

\* struct ShapeStats, default member initializers
ShapeStats == [total_area |-> Fin(0), total_perimeter |-> Fin(0), count |-> 0]

RECURSIVE StatsLoopAssigns(_, _, _, _)
\* mutant: "=" typed for "+=" on total_area
StatsLoopAssigns(H, st, vec, k) ==
    IF k > Len(vec) THEN [H |-> H, stats |-> st]
    ELSE LET a == CallGetArea(H, vec[k])
             p == CallGetPerimeter(a.H, vec[k])
         IN  StatsLoopAssigns(p.H,
                              [st EXCEPT !.total_area = a.ret,
                                         !.total_perimeter = DAdd(@, p.ret)],
                              vec, k + 1)

RECURSIVE StatsLoopReadsFields(_, _, _, _)
\* mutant: the cache fields are read directly instead of through the accessors
StatsLoopReadsFields(H, st, vec, k) ==
    IF k > Len(vec) THEN [H |-> H, stats |-> st]
    ELSE StatsLoopReadsFields(H,
             [st EXCEPT !.total_area = DAdd(@, H.objs[vec[k]].base.cached_area),
                        !.total_perimeter = DAdd(@, H.objs[vec[k]].base.cached_perimeter)],
             vec, k + 1)

RECURSIVE StatsLoop(_, _, _, _)
\* the range-for of calculateShapeStats from position k of the vector on
StatsLoop(H, st, vec, k) ==
    IF k > Len(vec) THEN [H |-> H, stats |-> st]
    ELSE LET a == CallGetArea(H, vec[k])
             p == CallGetPerimeter(a.H, vec[k])
         IN  StatsLoop(p.H,
                       [st EXCEPT !.total_area = DAdd(@, a.ret),
                                  !.total_perimeter = DAdd(@, p.ret)],
                       vec, k + 1)

calculateShapeStats(H, vec) ==
    StatsLoop(H, [ShapeStats EXCEPT !.count = Len(vec)], vec, 1)

\* ----------------------------------------------------------------- inputs
Dims == {Half(h) : h \in (0 - 2) .. MaxDim}
Sides == {Whole(n) : n \in 1 .. MaxSide}

AnyShape ==
    {Rectangle(w, h) : w \in Dims, h \in Dims}
    \cup {Circle(r) : r \in Dims}
    \cup {Triangle(a, b, c) : a \in Sides, b \in Sides, c \in Sides}

\* the shapes used in collections of more than one element
Catalogue ==
    {Rectangle(Whole(5), Whole(3)), Rectangle(Whole(0 - 1), Whole(2)),
     Circle(Whole(4)), Triangle(Whole(3), Whole(4), Whole(5)),
     Triangle(Whole(1), Whole(1), Whole(3))}

RECURSIVE SeqsOf(_, _)
SeqsOf(S, n) ==
    IF n = 0 THEN {<< >>}
    ELSE LET shorter == SeqsOf(S, n - 1)
         IN  shorter \cup {Append(q, x) : q \in {t \in shorter : Len(t) = n - 1}, x \in S}

Collections == SeqsOf(Catalogue, MaxShapes) \cup {<<x>> : x \in AnyShape}

\* main's emplace_back arguments, in order
MainShapes ==
    <<Rectangle(Whole(5), Whole(3)), Circle(Whole(4)),
      Triangle(Whole(3), Whole(4), Whole(5)),
      Rectangle(Half(5), Whole(6)), Circle(Half(5))>>

MainRect == Rectangle(Whole(7), Whole(2))
MainCircle == Circle(Whole(3))

\* ------------------------------------------------------------------- Init
InitLib ==
    /\ pc = "lib"
    /\ objs \in Collections
    /\ shapes = [i \in 1 .. Len(objs) |-> i]
    /\ log = [i \in 1 .. Len(objs) |-> EmptyLog]

InitMain ==
    /\ pc = "emplace"
    /\ objs = << >>
    /\ shapes = << >>
    /\ log = << >>

Init ==
    /\ InitLib \/ InitMain
    /\ stats = << >>
    /\ average = << >>
    /\ ops = 0

\* ------------------------------------------------- calls by any caller
LibCall == pc = "lib" /\ ops < MaxOps /\ ops' = ops + 1 /\ pc' = pc

GetArea(id) ==
    /\ LibCall
    /\ LET c == CallGetArea(Heap, id)
       IN  objs' = c.H.objs /\ log' = c.H.log
    /\ UNCHANGED <<shapes, stats, average>>

GetPerimeter(id) ==
    /\ LibCall
    /\ LET c == CallGetPerimeter(Heap, id)
       IN  objs' = c.H.objs /\ log' = c.H.log
    /\ UNCHANGED <<shapes, stats, average>>

DisplayInfo(id) ==
    /\ LibCall
    /\ LET H == displayInfo(Heap, id)
       IN  objs' = H.objs /\ log' = H.log
    /\ UNCHANGED <<shapes, stats, average>>

ProcessShape(id) ==
    /\ LibCall
    /\ LET H == processShape(Heap, id)
       IN  objs' = H.objs /\ log' = H.log
    /\ UNCHANGED <<shapes, stats, average>>

CalculateShapeStats ==
    /\ LibCall
    /\ LET r == calculateShapeStats(Heap, shapes)
       IN  objs' = r.H.objs /\ log' = r.H.log /\ stats' = Append(stats, r.stats)
    /\ UNCHANGED <<shapes, average>>

\* the summary's stats.total_area / stats.count (count converted to double)
AverageOf(st) == DDiv(st.total_area, Whole(st.count))

Average ==
    /\ LibCall
    /\ stats # << >>
    /\ average = << >>
    /\ average' = <<AverageOf(stats[Len(stats)])>>
    /\ UNCHANGED <<objs, shapes, log, stats>>

\* ------------------------------------------------------------------- main
MainEmplace ==
    /\ pc = "emplace"
    /\ LET k == Len(shapes) + 1
       IN  /\ objs' = Append(objs, MainShapes[k])
           /\ log' = Append(log, EmptyLog)
           /\ shapes' = Append(shapes, Len(objs) + 1)
           /\ pc' = IF k = Len(MainShapes) THEN "display1" ELSE "emplace"
    /\ UNCHANGED <<stats, average, ops>>

DisplayPc(i) == <<"display1", "display2", "display3", "display4", "display5">>[i]

\* the loop "for (const auto& shape : shapes) shape->displayInfo();"
MainDisplay ==
    /\ pc \in {"display1", "display2", "display3", "display4", "display5"}
    /\ LET k == CHOOSE i \in 1 .. 5 : pc = DisplayPc(i)
           H == displayInfo(Heap, shapes[k])
       IN  /\ objs' = H.objs /\ log' = H.log
           /\ pc' = IF k = Len(shapes) THEN "stats" ELSE DisplayPc(k + 1)
    /\ UNCHANGED <<shapes, stats, average, ops>>

MainStats ==
    /\ pc = "stats"
    /\ LET r == calculateShapeStats(Heap, shapes)
       IN  objs' = r.H.objs /\ log' = r.H.log /\ stats' = Append(stats, r.stats)
    /\ pc' = "summary"
    /\ UNCHANGED <<shapes, average, ops>>

MainSummary ==
    /\ pc = "summary"
    /\ average' = <<AverageOf(stats[Len(stats)])>>
    /\ pc' = "locals"
    /\ UNCHANGED <<objs, shapes, log, stats, ops>>

\* "Rectangle rect(7.0, 2.0); Circle circle(3.0);"
MainLocals ==
    /\ pc = "locals"
    /\ objs' = objs \o <<MainRect, MainCircle>>
    /\ log' = log \o <<EmptyLog, EmptyLog>>
    /\ pc' = "process_rect"
    /\ UNCHANGED <<shapes, stats, average, ops>>

MainProcessRect ==
    /\ pc = "process_rect"
    /\ LET H == processShape(Heap, Len(objs) - 1)
       IN  objs' = H.objs /\ log' = H.log
    /\ pc' = "process_circle"
    /\ UNCHANGED <<shapes, stats, average, ops>>

MainProcessCircle ==
    /\ pc = "process_circle"
    /\ LET H == processShape(Heap, Len(objs))
       IN  objs' = H.objs /\ log' = H.log
    /\ pc' = "done"
    /\ UNCHANGED <<shapes, stats, average, ops>>

Next ==
    \/ \E id \in DOMAIN objs : GetArea(id)
    \/ \E id \in DOMAIN objs : GetPerimeter(id)
    \/ \E id \in DOMAIN objs : DisplayInfo(id)
    \/ \E id \in DOMAIN objs : ProcessShape(id)
    \/ CalculateShapeStats
    \/ Average
    \/ MainEmplace
    \/ MainDisplay
    \/ MainStats
    \/ MainSummary
    \/ MainLocals
    \/ MainProcessRect
    \/ MainProcessCircle

Spec == Init /\ [][Next]_vars

\* ================================================================ claims
IsSet(x) == x # Unset
Last(q) == q[Len(q)]

\* an object with its two cache fields blanked: name, measurements and
\* precomputed attribute
Measures(o) == [o EXCEPT !.base.cached_area = Unset, !.base.cached_perimeter = Unset]

AllSame(q) == \A k \in DOMAIN q : q[k] = q[1]

\* ---- C1 ----------------------------------------------------------------
\* C1: for every shape object, whatever its measurements, all calls of
\* getArea() return the same value and calculateArea() has run at most once;
\* likewise getPerimeter() and calculatePerimeter().
MemoizationEveryShape ==
    \A id \in DOMAIN objs :
        /\ AllSame(log[id].areaRets)
        /\ log[id].areaCalc <= 1
        /\ AllSame(log[id].perimRets)
        /\ log[id].perimCalc <= 1

\* ---- C2 ----------------------------------------------------------------
IsValidRectangle(o) == o.kind = "Rectangle" /\ o.width.v > 0 /\ o.height.v > 0

\* C2: for a Rectangle with w > 0 and h > 0 every value getArea() has
\* returned is w * h and every value getPerimeter() has returned is 2 * (w + h).
RectangleMetrics ==
    \A id \in DOMAIN objs :
        IsValidRectangle(objs[id]) =>
            /\ \A k \in DOMAIN log[id].areaRets :
                   LET r == log[id].areaRets[k]
                   IN  IsFin(r) /\ r.v * Scale = objs[id].width.v * objs[id].height.v
            /\ \A k \in DOMAIN log[id].perimRets :
                   LET r == log[id].perimRets[k]
                   IN  IsFin(r) /\ r.v = 2 * (objs[id].width.v + objs[id].height.v)

RectangleMetricsWitness ==
    \E id \in DOMAIN objs :
        /\ IsValidRectangle(objs[id])
        /\ objs[id].width # objs[id].height
        /\ Len(log[id].areaRets) >= 2
        /\ Len(log[id].perimRets) >= 2

\* ---- C3 ----------------------------------------------------------------
\* sides in whole units
SideA(o) == o.side1.v \div Scale
SideB(o) == o.side2.v \div Scale
SideC(o) == o.side3.v \div Scale

SatisfiesInequality(o) ==
    /\ o.kind = "Triangle"
    /\ SideA(o) <= SideB(o) + SideC(o)
    /\ SideB(o) <= SideA(o) + SideC(o)
    /\ SideC(o) <= SideA(o) + SideB(o)

\* 16 * s * (s - a) * (s - b) * (s - c), an integer for integer sides
Heron16(o) ==
    LET a == SideA(o)
        b == SideB(o)
        c == SideC(o)
    IN  (a + b + c) * (b + c - a) * (a + c - b) * (a + b - c)

PerimeterIsSum(o, r) == IsFin(r) /\ r.v = o.side1.v + o.side2.v + o.side3.v

\* C3 as stated: for a Triangle satisfying the triangle inequality every
\* getPerimeter() value is a + b + c and every getArea() value is non-negative
\* with square exactly s(s-a)(s-b)(s-c).
TriangleExactRoot ==
    \A id \in DOMAIN objs :
        SatisfiesInequality(objs[id]) =>
            /\ \A k \in DOMAIN log[id].perimRets :
                   PerimeterIsSum(objs[id], log[id].perimRets[k])
            /\ \A k \in DOMAIN log[id].areaRets :
                   LET r == log[id].areaRets[k]
                   IN  /\ IsFin(r) /\ r.v >= 0
                       /\ 16 * r.v * r.v = Heron16(objs[id]) * Scale * Scale

\* r is the representable value nearest to the square root of the radicand
NearestRoot(o, r) ==
    LET n == (Heron16(o) * Scale * Scale) \div 16
    IN  /\ IsFin(r) /\ r.v >= 0
        /\ \/ r.v = 0 /\ n = 0
           \/ r.v * r.v - r.v < n /\ n <= r.v * r.v + r.v

\* C3 amended: for a Triangle satisfying the triangle inequality every
\* getPerimeter() value is a + b + c and every getArea() value is the
\* non-negative representable value nearest to the square root of
\* s(s-a)(s-b)(s-c); Triangle(3,4,5) has area 6 and perimeter 12.
TriangleRoundedRoot ==
    \A id \in DOMAIN objs :
        SatisfiesInequality(objs[id]) =>
            /\ \A k \in DOMAIN log[id].perimRets :
                   PerimeterIsSum(objs[id], log[id].perimRets[k])
            /\ \A k \in DOMAIN log[id].areaRets :
                   NearestRoot(objs[id], log[id].areaRets[k])
            /\ Measures(objs[id]) = Triangle(Whole(3), Whole(4), Whole(5)) =>
                   /\ \A k \in DOMAIN log[id].areaRets : log[id].areaRets[k] = Whole(6)
                   /\ \A k \in DOMAIN log[id].perimRets : log[id].perimRets[k] = Whole(12)

TriangleRoundedRootWitness ==
    /\ \E id \in DOMAIN objs :
           /\ Measures(objs[id]) = Triangle(Whole(3), Whole(4), Whole(5))
           /\ log[id].areaRets # << >>
           /\ log[id].perimRets # << >>
    /\ Len(objs) = 2

\* ---- C4 ----------------------------------------------------------------
RECURSIVE SumBack(_, _)
\* v[1] + (v[2] + ... (v[n] + 0.0)), over a sequence of doubles
SumBack(v, k) == IF k > Len(v) THEN Fin(0) ELSE DAdd(v[k], SumBack(v, k + 1))

AreasReturned == [k \in DOMAIN shapes |-> Last(log[shapes[k]].areaRets)]
PerimetersReturned == [k \in DOMAIN shapes |-> Last(log[shapes[k]].perimRets)]

\* C4: every ShapeStats returned has count = number of elements, total_area =
\* sum of the getArea() values of the elements and total_perimeter = sum of
\* their getPerimeter() values; in main count = 5 and the average is
\* total_area / 5.
StatsAreSums ==
    /\ \A k \in DOMAIN stats :
           /\ stats[k].count = Len(shapes)
           /\ stats[k].total_area = SumBack(AreasReturned, 1)
           /\ stats[k].total_perimeter = SumBack(PerimetersReturned, 1)
    /\ (pc # "lib" /\ stats # << >>) => Last(stats).count = 5
    /\ (pc # "lib" /\ average # << >>) =>
           /\ IsFin(average[1])
           /\ average[1] = Fin(RoundDiv(Last(stats).total_area.v, 5))

StatsAreSumsWitness ==
    /\ pc = "done"
    /\ Len(stats) = 1
    /\ average # << >>

\* ---- C5 ----------------------------------------------------------------
StrictlyDegenerate(o) ==
    /\ o.kind = "Triangle"
    /\ o.side1.v > 0 /\ o.side2.v > 0 /\ o.side3.v > 0
    /\ \/ SideA(o) > SideB(o) + SideC(o)
       \/ SideB(o) > SideA(o) + SideC(o)
       \/ SideC(o) > SideA(o) + SideB(o)

\* C5: for a Triangle with positive sides strictly violating the triangle
\* inequality the radicand is negative and every getArea() value is NaN.
DegenerateTriangleIsNaN ==
    \A id \in DOMAIN objs :
        StrictlyDegenerate(objs[id]) =>
            /\ DLess(HeronTerm(objs[id]), Fin(0))
            /\ \A k \in DOMAIN log[id].areaRets : IsNaN(log[id].areaRets[k])

DegenerateTriangleIsNaNWitness ==
    \E id \in DOMAIN objs :
        /\ StrictlyDegenerate(objs[id])
        /\ Len(log[id].areaRets) >= 2

CacheOneWay ==
    [][\A id \in DOMAIN objs :
           /\ IsSet(objs[id].base.cached_area) =>
                  objs'[id].base.cached_area = objs[id].base.cached_area
           /\ IsSet(objs[id].base.cached_perimeter) =>
                  objs'[id].base.cached_perimeter = objs[id].base.cached_perimeter]_vars

CacheOneWayWitness ==
    \E id \in DOMAIN objs :
        /\ IsSet(objs[id].base.cached_area)
        /\ IsSet(objs[id].base.cached_perimeter)
        /\ Len(log[id].areaRets) >= 2
        /\ Len(log[id].perimRets) >= 2
        /\ stats # << >>

\* ---- C8 ----------------------------------------------------------------
OthersUntouched(id) ==
    /\ DOMAIN objs' = DOMAIN objs
    /\ \A j \in DOMAIN objs : j # id => objs'[j] = objs[j]
    /\ shapes' = shapes

\* C8: a getArea() call changes at most the area cache of its object, a
\* getPerimeter() call at most the perimeter cache of its object.
AccessorFrame ==
    [][\A id \in DOMAIN objs :
           /\ GetArea(id) =>
                  /\ OthersUntouched(id)
                  /\ [objs'[id] EXCEPT !.base.cached_area = Unset]
                         = [objs[id] EXCEPT !.base.cached_area = Unset]
           /\ GetPerimeter(id) =>
                  /\ OthersUntouched(id)
                  /\ [objs'[id] EXCEPT !.base.cached_perimeter = Unset]
                         = [objs[id] EXCEPT !.base.cached_perimeter = Unset]]_vars

AccessorFrameWitness ==
    /\ Len(objs) = 2
    /\ \E id \in DOMAIN objs :
           /\ log[id].areaCalc = 1 /\ log[id].perimCalc = 0
           /\ objs[id].kind \in {"Circle", "Triangle"}
    /\ \E id \in DOMAIN objs : log[id].perimCalc = 1 /\ log[id].areaCalc = 0
    /\ stats = << >>

\* ---- C9 ----------------------------------------------------------------
AfterDisplayLoop == {"stats", "summary", "locals", "process_rect", "process_circle", "done"}

RanOnce(id) == log[id].areaCalc = 1 /\ log[id].perimCalc = 1

\* C9: in main, when calculateShapeStats starts both caches of the five
\* collection shapes are populated, it runs no formula, and at the end each
\* formula has run exactly once for each of the seven shapes.
MainRunsEachFormulaOnce ==
    /\ pc \in AfterDisplayLoop =>
           \A k \in 1 .. 5 :
               /\ ~DLess(objs[shapes[k]].base.cached_area, Fin(0))
               /\ ~DLess(objs[shapes[k]].base.cached_perimeter, Fin(0))
               /\ RanOnce(shapes[k])
    /\ pc = "done" => Len(objs) = 7 /\ \A id \in 1 .. 7 : RanOnce(id)

MainRunsEachFormulaOnceWitness ==
    /\ pc = "done"
    /\ \A id \in 1 .. 5 : Len(log[id].areaRets) = 2

\* ---- C10 ---------------------------------------------------------------
\* C10: a calculateShapeStats call leaves the vector and every shape's
\* measurements unchanged and returns the same ShapeStats as the previous
\* call did.
StatsIsPure ==
    [][(CalculateShapeStats \/ MainStats) =>
           /\ shapes' = shapes
           /\ DOMAIN objs' = DOMAIN objs
           /\ \A id \in DOMAIN objs : Measures(objs'[id]) = Measures(objs[id])
           /\ stats # << >> => Last(stats') = Last(stats)]_vars

StatsIsPureWitness ==
    /\ Len(stats) >= 2
    /\ Len(shapes) = 2
    /\ \E id \in DOMAIN objs : Len(log[id].areaRets) > Len(stats)
    /\ \E id \in DOMAIN objs : Len(log[id].areaRets) = Len(stats)

====
